---- MODULE Spec2Model ----
(***************************************************************************)
(* Model of run_simulation (src/simulate.py): the per-agent daily-schedule *)
(* simulator and the 24 per-hour edge counters it feeds.                   *)
(*                                                                         *)
(* Times are real-valued hours in the program; here they are integers in   *)
(* units of 1/Scale hour, so that the integer hour h of the loop is the    *)
(* time h * Scale and fractional boundaries (7.25, 21.5, ...) exist.       *)
(***************************************************************************)
EXTENDS Integers, Sequences, FiniteSets

\* ------------------------------------------------------------ bounds
Scale == 4          \* time resolution: ticks per hour
MaxRows == 2        \* rows of acs_data visited in one run
MaxWorkers == 1     \* largest worker count read from one acs_data cell
MaxAgents == 1      \* workers of one run that enter the 24h loop

\* ------------------------------------------------- program constants
Hours == 24         \* range(24)
WorkDay == 8        \* return_departure = arrival_hour + 8
WfhStart == 9       \* np.random.normal(9, 1)
SleepMin == 5       \* np.random.uniform(5, 9)
SleepMax == 9

Half == Scale \div 2
Quarter == Scale \div 4
Day == Hours * Scale
HourRange == 0 .. (Hours - 1)

\* ------------------------------------------------------- variable_map
\* time_windows of define_acs_variables, in ticks.
time_windows ==
  << <<0, 5 * Scale>>,                    <<5 * Scale, 5 * Scale + Half>>,
     <<5 * Scale + Half, 6 * Scale>>,     <<6 * Scale, 6 * Scale + Half>>,
     <<6 * Scale + Half, 7 * Scale>>,     <<7 * Scale, 7 * Scale + Half>>,
     <<7 * Scale + Half, 8 * Scale>>,     <<8 * Scale, 8 * Scale + Half>>,
     <<8 * Scale + Half, 9 * Scale>>,     <<9 * Scale, 10 * Scale>>,
     <<10 * Scale, 11 * Scale>>,          <<11 * Scale, 12 * Scale>>,
     <<12 * Scale, 16 * Scale>>,          <<16 * Scale, 24 * Scale>> >>

modes == <<"drive", "carpool", "transit", "walk", "other">>

\* The windows of time_windows the modelled ACS table has columns for
\* (7:00-7:29 and 16:00-23:59); the program has all 14 for every mode.
WindowSel == <<6, 14>>

\* variable_map: first the work-from-home variable, then mode x window.
variable_map ==
  <<[mode |-> "wfh", time_window |-> <<0, 0>>]>> \o
  [i \in 1 .. (Len(modes) * Len(WindowSel)) |->
     [mode |-> modes[((i - 1) \div Len(WindowSel)) + 1],
      time_window |-> time_windows[WindowSel[((i - 1) % Len(WindowSel)) + 1]]]]

\* np.mean(time_window)
mean(w) == (w[1] + w[2]) \div 2

\* ------------------------------------------------------ random draws
\* np.random.uniform(5, 9)
SleepDurations == {SleepMin * Scale, SleepMax * Scale}
\* np.random.normal(9, 1)
WorkStartDraws == {(WfhStart - 1) * Scale, WfhStart * Scale + Half}
\* np.random.normal(loc = mean, scale = 0.5) - mean
DepartureNoise == {0 - Quarter, 0}
\* np.random.uniform(0.25, 1.5)
CommuteDurations == {Quarter, Scale}

\* ------------------------------------------------------ road network
\* roads: a directed chain 1 -> 2 -> 3 -> 4; an edge is (u, v, key).
Nodes == 1 .. 4
\* edges: the rows of the edge table of ox.graph_to_gdfs, in index order
edges == << <<1, 2, 0>>, <<2, 3, 0>>, <<3, 4, 0>> >>
RoadEdges == {edges[i] : i \in 1 .. Len(edges)}
length(e) == 1
NoEdge == <<0, 0, 0>>

\* The simple node paths of roads.
SimplePaths ==
  {p \in UNION {[1 .. n -> Nodes] : n \in 1 .. Cardinality(Nodes)} :
     /\ \A i, j \in 1 .. Len(p) : i # j => p[i] # p[j]
     /\ \A i \in 1 .. (Len(p) - 1) :
          \E e \in RoadEdges : e[1] = p[i] /\ e[2] = p[i + 1]}

\* The parallel edge of least length between two adjacent nodes:
\* min(G.get_edge_data(u, v).values(), key = length) of osmnx.
min_edge(u, v) ==
  CHOOSE e \in RoadEdges :
    /\ e[1] = u /\ e[2] = v
    /\ \A f \in RoadEdges : (f[1] = u /\ f[2] = v) => length(e) <= length(f)

\* ox.utils_graph.get_route_edge_attributes(roads, path), as (u, v, key)
get_route_edge_attributes(path) ==
  [i \in 1 .. (Len(path) - 1) |-> min_edge(path[i], path[i + 1])]

RECURSIVE SumLength(_)
SumLength(es) ==
  IF es = <<>> THEN 0 ELSE length(Head(es)) + SumLength(Tail(es))

path_length(p) == SumLength(get_route_edge_attributes(p))

\* ox.shortest_path(roads, orig, dest, weight = 'length'): the paths it may
\* return; the empty set stands for nx.NetworkXNoPath.
ShortestPaths ==
  [orig \in Nodes, dest \in Nodes |->
     LET cands == {p \in SimplePaths : p[1] = orig /\ p[Len(p)] = dest}
     IN {p \in cands : \A q \in cands : path_length(p) <= path_length(q)}]
shortest_path(orig, dest) == ShortestPaths[orig, dest]

\* ------------------------------------------------ tracts and flows
TractIds == {"T1", "T2", "T3", "T4", "T5", "T6"}
\* tracts_geo: the tracts that have a geometry (T4 has none)
tracts_geo == {"T1", "T2", "T3", "T5", "T6"}
\* edges[edges.intersects(geom)]
intersects(g) ==
  CASE g = "T1" -> {<<1, 2, 0>>}
    [] g = "T2" -> {<<3, 4, 0>>}
    [] g = "T5" -> {<<2, 3, 0>>}
    [] g = "T6" -> {<<2, 3, 0>>}
    [] OTHER -> {}
\* lodes_data: rows (h_geocode, w_geocode, S000)
lodes_data ==
  { [h_geocode |-> "T1", w_geocode |-> "T2", S000 |-> 2],
    [h_geocode |-> "T1", w_geocode |-> "T1", S000 |-> 0],
    [h_geocode |-> "T1", w_geocode |-> "T3", S000 |-> 1],
    [h_geocode |-> "T1", w_geocode |-> "T4", S000 |-> 1],
    [h_geocode |-> "T2", w_geocode |-> "T1", S000 |-> 1],
    [h_geocode |-> "T2", w_geocode |-> "T2", S000 |-> 1],
    [h_geocode |-> "T2", w_geocode |-> "T5", S000 |-> 0],
    [h_geocode |-> "T6", w_geocode |-> "T1", S000 |-> 0] }

\* ------------------------------------------------ exception handling
\* except IndexError (home tract lookup)
HomeHandled == {"IndexError"}
WorkHandled_OnlyValueError == {"ValueError"}
\* except (IndexError, ValueError) (work tract lookup)
WorkHandled == {"IndexError", "ValueError"}

\* tracts_geo[tracts_geo['GEOID'] == geoid].iloc[0].geometry, then
\* edges[edges.intersects(geom)]
roads_in_tract(geoid) ==
  IF geoid \in tracts_geo
  THEN [raised |-> "none", roads |-> intersects(geoid)]
  ELSE [raised |-> "IndexError", roads |-> {}]

\* lodes_data[lodes_data['h_geocode'] == home_tract_geoid]
od_pairs_of(geoid) == {r \in lodes_data : r.h_geocode = geoid}

\* od_pairs.sample(1, weights = 'S000'): the rows it may return. When the
\* weights sum to zero pandas raises ValueError instead.
weights_sum_zero(od) == \A r \in od : r.S000 = 0
sample_unweighted(od) == od
sample_weighted(od) == {r \in od : r.S000 > 0}

\* ---------------------------------------------------------- schedule
\* (x - sleep_duration - 1 + 24) % 24
sleep_start(x, sleep_duration) == (x - sleep_duration - Scale + Day) % Day

\* The awake test of the work-from-home loop.
wfh_awake(a, hour) ==
  ~ (/\ a.sleep_start_hour <= hour * Scale
     /\ hour * Scale < (a.sleep_start_hour + a.sleep_duration) % Day)

\* is_sleeping of the commuter loop.
is_sleeping(a, hour) ==
  \/ /\ a.sleep_start_hour <= hour * Scale
     /\ hour * Scale < a.sleep_start_hour + a.sleep_duration
  \/ /\ a.sleep_start_hour + a.sleep_duration > Day
     /\ hour * Scale < (a.sleep_start_hour + a.sleep_duration) % Day

\* The branch the commuter loop takes for an hour: the if/elif chain. An
\* hour no branch takes is in [return_departure, return_arrival).
branch(a, hour) ==
  LET h == hour * Scale IN
  IF is_sleeping(a, hour) THEN "asleep"
  ELSE IF h < a.departure_hour \/ h >= a.return_arrival THEN "at_home"
  ELSE IF a.arrival_hour <= h /\ h < a.return_departure THEN "at_work"
  ELSE IF a.departure_hour <= h /\ h < a.arrival_hour THEN "commuting_out"
  ELSE "commuting_back"

\* The route of a worker, whatever its mode.
route_or_home(a) ==
  LET paths == shortest_path(a.home_edge[1], a.work_edge[2]) IN
  IF paths = {} THEN <<a.home_edge>>
  ELSE get_route_edge_attributes(CHOOSE p \in paths : TRUE)

\* Drivers routed like walkers.
commute_out_credits_drive_routed(a) ==
  IF a.mode = "transit" THEN <<a.home_edge, a.work_edge>>
  ELSE route_or_home(a)

\* Transit riders routed like walkers.
commute_out_credits_transit_routed(a) ==
  IF a.mode \in {"walk", "other", "transit"} THEN route_or_home(a)
  ELSE <<>>

\* The edges the commuting-to-work branch credits, in order. path is what
\* ox.shortest_path returned, <<>> when it raised nx.NetworkXNoPath.
commute_out_credits(a) ==
  IF a.mode \in {"walk", "other"}
  THEN IF a.path = <<>>
       THEN <<a.home_edge>>
       ELSE get_route_edge_attributes(a.path)
  ELSE IF a.mode = "transit"
  THEN <<a.home_edge, a.work_edge>>
  ELSE <<>>

\* The state one pass of the hour loop puts the worker in.
hour_state(a, hour) ==
  IF a.mode = "wfh"
  THEN IF wfh_awake(a, hour) THEN "at_home" ELSE "asleep"
  ELSE branch(a, hour)

\* The edges one pass of the hour loop credits, in order.
hour_credits(a, hour) ==
  LET b == hour_state(a, hour) IN
  CASE b = "asleep" -> <<>>
    [] b = "at_home" -> <<a.home_edge>>
    [] b = "at_work" -> <<a.work_edge>>
    [] b = "commuting_out" -> commute_out_credits(a)
    [] OTHER -> <<>>

\* ------------------------------------------------------- accumulator
credit_decrement(tbl, hour, edge) == [tbl EXCEPT ![hour][edge] = @ - 1]
\* hourly_foot_traffic[hour].loc[edge, 'foot_traffic'] += 1
credit(tbl, hour, edge) == [tbl EXCEPT ![hour][edge] = @ + 1]

RECURSIVE credit_all(_, _, _)
credit_all(tbl, hour, es) ==
  IF es = <<>> THEN tbl
  ELSE credit_all(credit(tbl, hour, Head(es)), hour, Tail(es))

\* for hour in range(n): the table after the first n passes of a worker.
RECURSIVE run_hours(_, _, _)
run_hours(tbl, a, n) ==
  IF n = 0 THEN tbl
  ELSE credit_all(run_hours(tbl, a, n - 1), n - 1, hour_credits(a, n - 1))

keeps_zero_rows(row) == row.foot_traffic >= 0
\* gdf[gdf['foot_traffic'] > 0]
has_traffic(row) == row.foot_traffic > 0

\* The rows one hour contributes to all_hours_list.
hour_rows(tbl, hour) ==
  SelectSeq([i \in 1 .. Len(edges) |->
               [edge |-> edges[i], hour |-> hour,
                foot_traffic |-> tbl[hour][edges[i]]]],
            has_traffic)

\* pd.concat(all_hours_list) over hours 0 .. n - 1
RECURSIVE concat_hours(_, _)
concat_hours(tbl, n) ==
  IF n = 0 THEN <<>>
  ELSE concat_hours(tbl, n - 1) \o hour_rows(tbl, n - 1)

\* ------------------------------------------------------------- state
VARIABLES
  pc,                   \* where run_simulation is
  rows_left,            \* rows of acs_data not yet visited
  home_tract_geoid,     \* the row being simulated
  roads_in_home_tract,
  od_pairs,
  var_idx,              \* position in variable_map
  workers_left,         \* iterations left of range(num_workers)
  simulated,            \* workers that went through a 24h loop so far
  agent,                \* the locals of the last worker
  day,                  \* hour -> what the last worker's loop did then
  outcome,              \* how the last resolution step ended
  hourly_foot_traffic,  \* hour -> edge -> foot_traffic
  all_hours_gdf         \* the table run_simulation returns

vars ==
  <<pc, rows_left, home_tract_geoid, roads_in_home_tract, od_pairs, var_idx,
    workers_left, simulated, agent, day, outcome, hourly_foot_traffic,
    all_hours_gdf>>

NoAgent ==
  [mode |-> "none", home_edge |-> NoEdge, work_edge |-> NoEdge,
   work_tract_geoid |-> "none", path |-> <<>>, sleep_duration |-> 0,
   sleep_start_hour |-> 0, departure_hour |-> 0, arrival_hour |-> 0,
   return_departure |-> 0, return_arrival |-> 0]

NoDay == [h \in HourRange |-> [state |-> "none", credited |-> <<>>]]

\* What the 24 passes of a worker's loop did.
day_of(a) ==
  [h \in HourRange |->
     [state |-> hour_state(a, h), credited |-> hour_credits(a, h)]]

\* edges['foot_traffic'] = 0; one copy of edges per hour
Init ==
  /\ pc = "tract"
  /\ rows_left \in 0 .. MaxRows
  /\ home_tract_geoid = "none"
  /\ roads_in_home_tract = {}
  /\ od_pairs = {}
  /\ var_idx = 1
  /\ workers_left = 0
  /\ simulated = 0
  /\ agent = NoAgent
  /\ day = NoDay
  /\ outcome = "none"
  /\ hourly_foot_traffic = [h \in HourRange |-> [e \in RoadEdges |-> 0]]
  /\ all_hours_gdf = <<>>

\* for _, home_tract in acs_data.iterrows(): the home tract is resolved, or
\* the row is skipped.
NextTract ==
  /\ pc = "tract"
  /\ rows_left > 0
  /\ \E geoid \in TractIds :
       LET r == roads_in_tract(geoid) IN
       /\ home_tract_geoid' = geoid
       /\ rows_left' = rows_left - 1
       /\ roads_in_home_tract' = r.roads
       /\ IF r.raised # "none"
          THEN /\ pc' = IF r.raised \in HomeHandled THEN "tract" ELSE "crashed"
               /\ outcome' = IF r.raised \in HomeHandled
                             THEN "home_geometry_missing" ELSE r.raised
               /\ UNCHANGED <<od_pairs, var_idx>>
          ELSE IF r.roads = {}
          THEN /\ pc' = "tract"
               /\ outcome' = "home_no_roads"
               /\ UNCHANGED <<od_pairs, var_idx>>
          ELSE /\ pc' = "var"
               /\ outcome' = "none"
               /\ od_pairs' = od_pairs_of(geoid)
               /\ var_idx' = 1
  /\ agent' = NoAgent
  /\ day' = NoDay
  /\ UNCHANGED <<workers_left, simulated, hourly_foot_traffic, all_hours_gdf>>

\* for var, (mode, time_window) in variable_map.items(): the worker counts
\* of the cells are read; cells <= 0 are skipped up to the first one with
\* workers, or up to the end of variable_map and on to the next row (the
\* locals of the row are dead from there on).
NextVar ==
  /\ pc = "var"
  /\ \/ \E j \in var_idx .. Len(variable_map),
           num_workers \in 1 .. MaxWorkers :
          /\ num_workers <= MaxAgents - simulated
          /\ var_idx' = j
          /\ workers_left' = num_workers
          /\ pc' = "worker"
          /\ UNCHANGED <<home_tract_geoid, roads_in_home_tract, od_pairs>>
     \/ /\ var_idx' = 1
        /\ pc' = "tract"
        /\ home_tract_geoid' = "none"
        /\ roads_in_home_tract' = {}
        /\ od_pairs' = {}
        /\ UNCHANGED workers_left
  /\ outcome' = "none"
  /\ UNCHANGED <<rows_left, simulated, agent, day, hourly_foot_traffic,
                 all_hours_gdf>>

\* range(num_workers) is exhausted: on to the next variable. The locals of
\* the last worker are dead from here on.
EndVar ==
  /\ pc = "worker"
  /\ workers_left = 0
  /\ pc' = "var"
  /\ var_idx' = var_idx + 1
  /\ outcome' = "none"
  /\ agent' = NoAgent
  /\ day' = NoDay
  /\ UNCHANGED <<rows_left, home_tract_geoid, roads_in_home_tract, od_pairs,
                 workers_left, simulated, hourly_foot_traffic,
                 all_hours_gdf>>

\* The worker goes through its 24h loop and the loop goes on to the next
\* worker.
Simulate(a) ==
  /\ agent' = a
  /\ day' = day_of(a)
  /\ hourly_foot_traffic' = run_hours(hourly_foot_traffic, a, Hours)
  /\ simulated' = simulated + 1
  /\ workers_left' = workers_left - 1
  /\ pc' = "worker"

\* continue: the worker is abandoned before its 24h loop.
Abandon(why, home_edge, sleep_duration, w_geocode) ==
  /\ agent' = [NoAgent EXCEPT
                 !.mode = variable_map[var_idx].mode,
                 !.home_edge = home_edge,
                 !.sleep_duration = sleep_duration,
                 !.work_tract_geoid = w_geocode]
  /\ day' = NoDay
  /\ outcome' = why
  /\ workers_left' = workers_left - 1
  /\ pc' = "worker"
  /\ UNCHANGED <<simulated, hourly_foot_traffic>>

\* An exception no handler catches leaves run_simulation.
Raise(why, home_edge, sleep_duration, w_geocode) ==
  /\ agent' = [NoAgent EXCEPT
                 !.mode = variable_map[var_idx].mode,
                 !.home_edge = home_edge,
                 !.sleep_duration = sleep_duration,
                 !.work_tract_geoid = w_geocode]
  /\ day' = NoDay
  /\ outcome' = why
  /\ pc' = "crashed"
  /\ UNCHANGED <<simulated, workers_left, hourly_foot_traffic>>

\* One work-from-home worker.
SimulateWfh ==
  /\ pc = "worker"
  /\ workers_left > 0
  /\ variable_map[var_idx].mode = "wfh"
  /\ \E home_edge \in roads_in_home_tract,
        sleep_duration \in SleepDurations,
        work_start_hour \in WorkStartDraws :
       Simulate([NoAgent EXCEPT
                   !.mode = "wfh",
                   !.home_edge = home_edge,
                   !.sleep_duration = sleep_duration,
                   !.sleep_start_hour =
                      sleep_start(work_start_hour, sleep_duration)])
  /\ outcome' = "wfh"
  /\ UNCHANGED <<rows_left, home_tract_geoid, roads_in_home_tract, od_pairs,
                 var_idx, all_hours_gdf>>

\* One commuting worker: the work location is resolved and the schedule
\* drawn, or the worker is abandoned.
SimulateCommuter ==
  /\ pc = "worker"
  /\ workers_left > 0
  /\ variable_map[var_idx].mode # "wfh"
  /\ \E home_edge \in roads_in_home_tract,
        sleep_duration \in SleepDurations :
       IF od_pairs = {}
       THEN Abandon("no_flow", home_edge, sleep_duration, "none")
       ELSE IF weights_sum_zero(od_pairs)
       THEN Raise("ValueError", home_edge, sleep_duration, "none")
       ELSE \E row \in sample_weighted(od_pairs) :
         LET r == roads_in_tract(row.w_geocode) IN
         IF r.raised # "none"
         THEN IF r.raised \in WorkHandled
              THEN Abandon("work_geometry_missing", home_edge,
                           sleep_duration, row.w_geocode)
              ELSE Raise(r.raised, home_edge, sleep_duration, row.w_geocode)
         ELSE IF r.roads = {}
         THEN Abandon("work_no_roads", home_edge, sleep_duration,
                      row.w_geocode)
         ELSE \E work_edge \in r.roads,
                 noise \in DepartureNoise,
                 commute \in CommuteDurations :
           LET departure_hour ==
                 mean(variable_map[var_idx].time_window) + noise
               arrival_hour == departure_hour + commute
               return_departure == arrival_hour + WorkDay * Scale
               return_arrival ==
                 return_departure + (arrival_hour - departure_hour)
               paths ==
                 IF variable_map[var_idx].mode \in {"walk", "other"}
                 THEN shortest_path(home_edge[1], work_edge[2])
                 ELSE {}
           IN \E path \in (IF paths = {} THEN {<<>>} ELSE paths) :
                /\ Simulate([mode |-> variable_map[var_idx].mode,
                             home_edge |-> home_edge,
                             work_edge |-> work_edge,
                             work_tract_geoid |-> row.w_geocode,
                             path |-> path,
                             sleep_duration |-> sleep_duration,
                             sleep_start_hour |->
                               sleep_start(departure_hour, sleep_duration),
                             departure_hour |-> departure_hour,
                             arrival_hour |-> arrival_hour,
                             return_departure |-> return_departure,
                             return_arrival |-> return_arrival])
                /\ outcome' = "resolved"
  /\ UNCHANGED <<rows_left, home_tract_geoid, roads_in_home_tract, od_pairs,
                 var_idx, all_hours_gdf>>

\* acs_data is exhausted: the 24 tables are filtered and concatenated.
Finalize ==
  /\ pc = "tract"
  /\ rows_left = 0
  /\ all_hours_gdf' = concat_hours(hourly_foot_traffic, Hours)
  /\ pc' = "done"
  /\ outcome' = "none"
  /\ UNCHANGED <<rows_left, home_tract_geoid, roads_in_home_tract, od_pairs,
                 var_idx, workers_left, simulated, agent, day,
                 hourly_foot_traffic>>

Next ==
  \/ NextTract
  \/ NextVar
  \/ EndVar
  \/ SimulateWfh
  \/ SimulateCommuter
  \/ Finalize

Spec == Init /\ [][Next]_vars

\* ------------------------------------------------------------ claims
\* The hours of the day as the claims speak of them.
InDay(t) == (t + 2 * Day) % Day

\* The time t is inside [lo, hi) taken modulo 24 hours.
InWrapped(t, lo, hi) == InDay(t - lo) < hi - lo

\* The time t is inside [lo, hi) as it stands.
InPlain(t, lo, hi) == lo <= t /\ t < hi

Asleep(a, h) ==
  InWrapped(h * Scale, a.sleep_start_hour,
            a.sleep_start_hour + a.sleep_duration)

\* The state of hour h by the four intervals, each taken modulo 24.
WrappedState(a, h) ==
  IF Asleep(a, h) THEN "asleep"
  ELSE IF InWrapped(h * Scale, a.departure_hour, a.arrival_hour)
  THEN "commuting_out"
  ELSE IF InWrapped(h * Scale, a.arrival_hour, a.return_departure)
  THEN "at_work"
  ELSE IF InWrapped(h * Scale, a.return_departure, a.return_arrival)
  THEN "commuting_back"
  ELSE "at_home"

Commuting(a, h) ==
  \/ InPlain(h * Scale, a.departure_hour, a.arrival_hour)
  \/ InPlain(h * Scale, a.return_departure, a.return_arrival)

EdgesOf(es) == {es[i] : i \in 1 .. Len(es)}

\* How many times the sequence es names the edge e.
Times(es, e) == Cardinality({i \in 1 .. Len(es) : es[i] = e})

CommuterDone == outcome = "resolved"
WfhDone == outcome = "wfh"

\* C1: for a commuting worker with a resolved home and work edge, the loop
\* treats every hour 0..23 as the one state that the sleep, commute-out,
\* work and commute-back intervals, each taken modulo 24, put it in.
C1_WrappedPartition ==
  CommuterDone =>
    \A h \in HourRange : day[h].state = WrappedState(agent, h)

\* C2: a work-from-home worker credits only its home edge, at most once an
\* hour, and as many times as there are hours outside its sleep interval
\* taken modulo 24.
C2_WfhAwakeCredits ==
  WfhDone =>
    /\ \A h \in HourRange :
         /\ EdgesOf(day[h].credited) \subseteq {agent.home_edge}
         /\ Len(day[h].credited) <= 1
    /\ Cardinality({h \in HourRange : day[h].credited # <<>>})
         = Cardinality({h \in HourRange : ~ Asleep(agent, h)})

\* C3: a transit worker credits its home edge once and its work edge once
\* in every waking hour of [departure, arrival) and of
\* [return_departure, return_arrival).
C3_TransitBothLegs ==
  (CommuterDone /\ agent.mode = "transit") =>
    \A h \in HourRange :
      (~ Asleep(agent, h) /\ Commuting(agent, h)) =>
        day[h].credited = <<agent.home_edge, agent.work_edge>>

\* C4: a walk/other worker whose route does not exist credits, in every
\* commuting hour, its home edge once and no other edge.
C4_NoPathFallback ==
  (/\ CommuterDone
   /\ agent.mode \in {"walk", "other"}
   /\ shortest_path(agent.home_edge[1], agent.work_edge[2]) = {}) =>
    \A h \in HourRange :
      (~ Asleep(agent, h) /\ Commuting(agent, h)) =>
        day[h].credited = <<agent.home_edge>>

\* C4, the commute to work alone: there the fallback credits the home edge
\* once and the loop goes on.
C4_OutboundFallback ==
  (/\ CommuterDone
   /\ agent.mode \in {"walk", "other"}
   /\ shortest_path(agent.home_edge[1], agent.work_edge[2]) = {}) =>
    /\ pc = "worker"
    /\ \A h \in HourRange :
         (/\ ~ Asleep(agent, h)
          /\ InPlain(h * Scale, agent.departure_hour, agent.arrival_hour)) =>
           day[h].credited = <<agent.home_edge>>

Failures ==
  {"home_geometry_missing", "home_no_roads", "no_flow",
   "work_geometry_missing", "work_no_roads"}

\* C5: a failed resolution step (home or work tract without geometry or
\* without road edge, home tract without flow record) credits nothing and
\* hands control to the next worker or tract; the run never stops there,
\* and nothing but the ValueError of a weighted sample over all-zero
\* weights ends it before finalization.
C5_FailuresAbsorbed ==
  /\ [](/\ pc = "crashed" => outcome = "ValueError"
        /\ outcome \in Failures => pc \in {"tract", "worker"}
        /\ pc \notin {"done", "crashed"} => ENABLED Next)
  /\ [][outcome' \in Failures =>
          /\ hourly_foot_traffic' = hourly_foot_traffic
          /\ simulated' = simulated
          /\ day' = NoDay]_vars

C7_Monotone ==
  /\ [](\A h \in HourRange : \A e \in RoadEdges :
          /\ hourly_foot_traffic[h][e] \in Nat
          /\ hourly_foot_traffic[h][e] >= Times(day[h].credited, e))
  /\ [][\A h \in HourRange : \A e \in RoadEdges :
          hourly_foot_traffic'[h][e] >= hourly_foot_traffic[h][e]]_vars

\* The rows of the finalized table for one (edge, hour).
RowsFor(e, h) ==
  {i \in 1 .. Len(all_hours_gdf) :
     all_hours_gdf[i].edge = e /\ all_hours_gdf[i].hour = h}

\* C8: the finalized table has exactly one row for every (edge, hour)
\* whose counter is at least 1, carrying that counter, none for a counter
\* of 0, and every row has an hour in 0..23 and a count >= 1.
C8_Finalized ==
  pc = "done" =>
    /\ \A h \in HourRange : \A e \in RoadEdges :
         IF hourly_foot_traffic[h][e] >= 1
         THEN /\ Cardinality(RowsFor(e, h)) = 1
              /\ \A i \in RowsFor(e, h) :
                   all_hours_gdf[i].foot_traffic = hourly_foot_traffic[h][e]
         ELSE RowsFor(e, h) = {}
    /\ \A i \in 1 .. Len(all_hours_gdf) :
         /\ all_hours_gdf[i].hour \in HourRange
         /\ all_hours_gdf[i].edge \in RoadEdges
         /\ all_hours_gdf[i].foot_traffic >= 1

\* C9: a sampled work tract is the work tract of a flow record of the
\* home tract with weight > 0, and of no record of weight 0.
C9_PositiveWeight ==
  agent.work_tract_geoid # "none" =>
    /\ \E r \in lodes_data :
         /\ r.h_geocode = home_tract_geoid
         /\ r.w_geocode = agent.work_tract_geoid
         /\ r.S000 > 0
    /\ \A r \in lodes_data :
         (/\ r.h_geocode = home_tract_geoid
          /\ r.w_geocode = agent.work_tract_geoid) => r.S000 # 0

\* C10: a worker of any mode credits at most two distinct edges in an
\* hour.
C10_AtMostTwo ==
  (CommuterDone \/ WfhDone) =>
    \A h \in HourRange : Cardinality(EdgesOf(day[h].credited)) <= 2

\* C10 amended: work-from-home, drive, carpool and transit workers credit
\* at most two distinct edges in an hour; a walk/other worker credits at
\* most one edge in an hour outside its commute to work, and in an hour of
\* that commute every edge of the route once (or the home edge once when
\* there is no route).
C10_RouteLong ==
  (CommuterDone \/ WfhDone) =>
    \A h \in HourRange :
      IF agent.mode \in {"walk", "other"}
      THEN IF day[h].state = "commuting_out"
           THEN \/ /\ agent.path = <<>>
                   /\ day[h].credited = <<agent.home_edge>>
                \/ /\ agent.path # <<>>
                   /\ Len(day[h].credited) = Len(agent.path) - 1
                   /\ \A i \in 1 .. Len(day[h].credited) :
                        /\ day[h].credited[i][1] = agent.path[i]
                        /\ day[h].credited[i][2] = agent.path[i + 1]
           ELSE Cardinality(EdgesOf(day[h].credited)) <= 1
      ELSE Cardinality(EdgesOf(day[h].credited)) <= 2

\* --------------------------------------------------------- witnesses
\* A tract is skipped after a worker has been simulated.
C5_Witness ==
  /\ outcome \in Failures
  /\ simulated >= 1
  /\ \E h \in HourRange : \E e \in RoadEdges : hourly_foot_traffic[h][e] > 0

C7_Witness ==
  \E h \in HourRange : \E e \in RoadEdges : hourly_foot_traffic[h][e] >= 2

\* A finalized table with a row of count 2 and a counter left at 0.
C8_Witness ==
  /\ pc = "done"
  /\ \E i \in 1 .. Len(all_hours_gdf) : all_hours_gdf[i].foot_traffic = 2
  /\ \E h \in HourRange : \E e \in RoadEdges : hourly_foot_traffic[h][e] = 0

\* A work tract sampled for a home tract that has a record of weight 0.
C9_Witness ==
  /\ CommuterDone
  /\ \E r \in lodes_data : r.h_geocode = home_tract_geoid /\ r.S000 = 0
  /\ \E r \in lodes_data : r.h_geocode = home_tract_geoid /\ r.S000 > 0

\* A walker credits the three edges of its route in one hour.
C10_Witness ==
  /\ CommuterDone
  /\ agent.mode = "walk"
  /\ \E h \in HourRange : Cardinality(EdgesOf(day[h].credited)) = 3

====
